---- MODULE Spec2Model ----
(***************************************************************************)
(* The polygon object interpreter of similar/3d/interp.cpp: one decode     *)
(* loop (iterate_polymodel / dispatch_polymodel_op) driven over a byte     *)
(* buffer by the behaviours g3_poly_get_color, g3_draw_polygon_model,      *)
(* g3_draw_morphing_model, g3_init_polygon_model and                       *)
(* swap_polygon_model_data.  The buffer is a sequence of bytes, positions  *)
(* are byte offsets, and the C++ recursion is an explicit stack of frames. *)
(***************************************************************************)
EXTENDS Integers, Sequences, FiniteSets, TLC

(***************************************************************************)
(* Opcodes (interp.cpp 29-37).                                             *)
(***************************************************************************)
OP_EOF == 0
OP_DEFPOINTS == 1
OP_FLATPOLY == 2
OP_TMAPPOLY == 3
OP_SORTNORM == 4
OP_RODBM == 5
OP_SUBCALL == 6
OP_DEFP_START == 7
OP_GLOW == 8

\* MAX_POINTS_PER_POLY is set in a header outside this file; the interpreter
\* only compares vertex counts with it, so the model runs with a small value.
MAX_POINTS_PER_POLY == 4
\* Number of top-level entry-point calls made on one buffer.
MaxCalls == 2
\* Frames the call stack holds before the host's stack is exhausted.
MaxDepth == 12
\* MAX_CHUNKS, the capacity of a chunk list, is set in a header outside this
\* file; add_chunk only compares the count with it.
MAX_CHUNKS == 4
\* Assert(++nest_count < 1000) of init_model_sub.
NEST_LIMIT == 1000

\* glow_num(~0u), exchange(glow_num, -1).  An unsigned is held as the int of
\* the same 32 bits, so ~0u is -1 and every value with the top bit set is
\* negative; UnsignedLess compares two of them as unsigned values.
GLOW_OFF == -1
UnsignedLess(a, b) == IF (a < 0) = (b < 0) THEN a < b ELSE b < 0

(***************************************************************************)
(* Integers of fixed width.                                                *)
(***************************************************************************)
U16(v) == v % 65536
S16(u) == IF u % 65536 >= 32768 THEN (u % 65536) - 65536 ELSE u % 65536
\* SWAPSHORT: the two bytes of a 16-bit value exchanged.
SWAPSHORT(v) == ((U16(v) % 256) * 256) + (U16(v) \div 256)
\* n & ~1 on a vertex count.
ClearBit0(n) == n - (n % 2)

RECURSIVE Concat(_)
Concat(ss) == IF ss = <<>> THEN <<>> ELSE Head(ss) \o Concat(Tail(ss))

RECURSIVE SumSeq(_)
SumSeq(s) == IF s = <<>> THEN 0 ELSE Head(s) + SumSeq(Tail(s))

SetMax(S) == CHOOSE x \in S : \A y \in S : y <= x

(***************************************************************************)
(* The on-disk form of a model, used to build the input buffers.  A model  *)
(* is a sequence of streams laid out one after the other; a stream is a    *)
(* sequence of records followed by the end-of-stream tag.  A branch field  *)
(* is given either as the stream it leads to or as a raw field value.      *)
(* Files are little-endian.  Each field lies where the handlers read it.   *)
(***************************************************************************)
LE16(v) == <<U16(v) % 256, U16(v) \div 256>>
\* Filler for vectors, radii and uv/light values: the byte at offset k of a record.
Fill(k) == 1 + (k % 4)
Filler(from, len) == [i \in 1..len |-> Fill(from + i - 1)]

Defp(n) == [op |-> "defpoints", n |-> n]
DefpS(n, s) == [op |-> "defp_start", n |-> n, first |-> s]
Flat(n, c) == [op |-> "flatpoly", n |-> n, color |-> c]
Tmap(n, t) == [op |-> "tmappoly", n |-> n, tex |-> t]
Sort(f, b) == [op |-> "sortnorm", front |-> f, back |-> b]
Rod(t) == [op |-> "rodbm", tex |-> t]
Sub(i, t) == [op |-> "subcall", idx |-> i, to |-> t]
Glow(g) == [op |-> "glow", g |-> g]
Bad(c) == [op |-> "bad", code |-> c]
ToStream(s) == [k |-> "stream", s |-> s]
Raw(v) == [k |-> "raw", v |-> v]

\* Entries of a polygon's point-index table: the count padded to an odd number.
IndexSlots(n) == IF n % 2 = 1 THEN n ELSE n + 1
IndexTable(n) == Concat([i \in 1..IndexSlots(n) |-> LE16(IF i <= n THEN i - 1 ELSE 0)])

\* The bytes of one record; f1 and f2 are the values of its branch fields.
RecBytes(r, f1, f2) ==
    CASE r.op = "defpoints" -> LE16(OP_DEFPOINTS) \o LE16(r.n) \o Filler(4, 12 * r.n)
      [] r.op = "defp_start" -> LE16(OP_DEFP_START) \o LE16(r.n) \o LE16(r.first)
                                  \o <<0, 0>> \o Filler(8, 12 * r.n)
      [] r.op = "flatpoly" -> LE16(OP_FLATPOLY) \o LE16(r.n) \o Filler(4, 24)
                                  \o LE16(r.color) \o IndexTable(r.n)
      [] r.op = "tmappoly" -> LE16(OP_TMAPPOLY) \o LE16(r.n) \o Filler(4, 24)
                                  \o LE16(r.tex) \o IndexTable(r.n)
                                  \o Filler(30 + 2 * IndexSlots(r.n), 12 * r.n)
      [] r.op = "sortnorm" -> LE16(OP_SORTNORM) \o <<0, 0>> \o Filler(4, 24)
                                  \o LE16(f1) \o LE16(f2)
      [] r.op = "rodbm" -> LE16(OP_RODBM) \o LE16(r.tex) \o Filler(4, 32)
      [] r.op = "subcall" -> LE16(OP_SUBCALL) \o LE16(r.idx) \o Filler(4, 12)
                                  \o LE16(f1) \o <<0, 0>>
      [] r.op = "glow" -> LE16(OP_GLOW) \o LE16(r.g)
      [] r.op = "bad" -> LE16(r.code)

RecLen(r) == Len(RecBytes(r, 0, 0))
StreamLen(st) == SumSeq([i \in 1..Len(st) |-> RecLen(st[i])]) + 2
\* Position of stream s of model m, and of record i of that stream
\* (i = Len + 1 is the end-of-stream tag).
StreamStart(m, s) == SumSeq([j \in 1..(s - 1) |-> StreamLen(m[j])])
RecPos(m, s, i) == StreamStart(m, s) + SumSeq([j \in 1..(i - 1) |-> RecLen(m[s][j])])
EofPos(m, s) == RecPos(m, s, Len(m[s]) + 1)
\* The value stored in a branch field of the record at position pos.
FieldOf(m, t, pos) == IF t.k = "stream" THEN StreamStart(m, t.s) - pos ELSE t.v
EncRec(m, s, i) ==
    LET r == m[s][i]
        pos == RecPos(m, s, i)
    IN CASE r.op = "sortnorm" -> RecBytes(r, FieldOf(m, r.front, pos), FieldOf(m, r.back, pos))
         [] r.op = "subcall" -> RecBytes(r, FieldOf(m, r.to, pos), 0)
         [] OTHER -> RecBytes(r, 0, 0)
EncStream(m, s) == Concat([i \in 1..Len(m[s]) |-> EncRec(m, s, i)]) \o LE16(OP_EOF)
Encode(m) == Concat([s \in 1..Len(m) |-> EncStream(m, s)])

(***************************************************************************)
(* The inputs: models, each with the stream its entry point is given.      *)
(***************************************************************************)
OverMax == MAX_POINTS_PER_POLY + 1
Models ==
    << \* every non-branching opcode once, in one stream
       [streams |-> << <<Defp(1), Flat(3, 9), Glow(0), Tmap(3, 2), Rod(1), DefpS(1, 1), Glow(-1), Tmap(3, 5)>> >>,
        entry |-> 1],
       \* vertex counts: even, odd, below three, above the maximum
       [streams |-> << <<Flat(4, 3), Tmap(4, 6), Flat(2, 1), Flat(OverMax, 7), Tmap(3, 1)>> >>, entry |-> 1],
       \* a glow index followed by polygons of each kind
       [streams |-> << <<Tmap(OverMax, 8), Flat(3, 4), Tmap(2, 9), Glow(1), Flat(3, 2),
                         Tmap(OverMax, 3), Tmap(3, 5), Tmap(3, 6)>> >>, entry |-> 1],
       \* texture indices 3, 7, 1 below a sort node and a sub-model call
       [streams |-> << <<Sort(ToStream(2), ToStream(3)), Tmap(3, 1)>>,
                       <<Tmap(3, 3)>>,
                       <<Sub(1, ToStream(4))>>,
                       <<Glow(1), Tmap(3, 7), Flat(3, 5)>> >>, entry |-> 1],
       \* branches that lead backwards in the buffer
       [streams |-> << <<Flat(3, 6), Tmap(3, 4)>>,
                       <<Rod(2)>>,
                       <<Glow(0), Sort(ToStream(1), ToStream(2)), Flat(3, 2)>> >>, entry |-> 3],
       [streams |-> << <<Tmap(3, -2), Flat(3, 8)>>,
                       <<Sub(0, ToStream(1)), Sub(1, ToStream(1)), Tmap(3, -5)>> >>, entry |-> 2],
       \* an opcode outside the known ones: at the top, and two calls deep
       [streams |-> << <<Glow(1), Bad(9), Flat(3, 1)>> >>, entry |-> 1],
       [streams |-> << <<Sub(0, ToStream(2)), Tmap(3, 4)>>,
                       <<Sort(ToStream(3), ToStream(3)), Flat(3, 2)>>,
                       <<Tmap(3, 6), Bad(2304), Flat(3, 3)>> >>, entry |-> 1],
       \* branch fields that resolve outside the buffer
       [streams |-> << <<Flat(3, 1), Sub(0, Raw(4000)), Tmap(3, 2)>> >>, entry |-> 1],
       [streams |-> << <<Sub(0, Raw(-100))>> >>, entry |-> 1],
       [streams |-> << <<Sort(Raw(500), Raw(-36)), Flat(3, 1)>> >>, entry |-> 1],
       \* a sub-model call that leads back to its own stream
       [streams |-> << <<Glow(0), Sub(0, ToStream(1))>> >>, entry |-> 1],
       \* records without a vertex count or a branch
       [streams |-> << <<Glow(2), Rod(3)>> >>, entry |-> 1],
       \* a polygon before a sort node whose front branch holds no polygon
       [streams |-> << <<Flat(3, 6), Sort(ToStream(2), ToStream(3)), Sub(0, ToStream(2))>>,
                       <<Rod(2)>>,
                       <<Flat(3, 4)>> >>, entry |-> 1],
       \* glow indices set at each of three nesting levels
       [streams |-> << <<Glow(0), Sort(ToStream(2), ToStream(3)), Tmap(3, 2)>>,
                       <<Glow(1), Tmap(3, 6)>>,
                       <<Sub(0, ToStream(4))>>,
                       <<Tmap(3, 7)>> >>, entry |-> 1],
       \* the empty model
       [streams |-> << <<>> >>, entry |-> 1] >>

\* The glow_values argument: a null pointer, or a table.
NoGlowTable == [has |-> FALSE, v |-> <<>>]
GlowTables == {NoGlowTable} \cup {[has |-> TRUE, v |-> t] : t \in {<<>>, <<5, -3>>, <<-2>>}}

\* The new_data argument of get_chunks.
NewDataAddrs == {0, 1000}

\* get_chunks is compiled where DXX_WORDS_NEED_ALIGNMENT is set, and
\* swap_polygon_model_data where DXX_WORDS_BIGENDIAN is.
Modes == {"ColorProbe", "StaticDraw", "MorphDraw", "InitScan", "ByteSwap", "ChunkCollect"}
Final == {"done", "MalformedModel", "assert", "crash"}

VARIABLES
    mdl,          \* the model the buffer was built from (never changes)
    canvas,       \* the canvas given to the running (or last) draw call
    grd_curcanv,  \* the global current canvas
    visits,       \* the records the running (or last) call dispatched, in order
    buf,          \* the model buffer, a sequence of bytes
    game,         \* "D1" / "D2": DXX_BUILD_DESCENT_I or DXX_BUILD_DESCENT_II
    bigendian,    \* DXX_WORDS_BIGENDIAN
    ndebug,       \* NDEBUG: Assert() compiles to nothing
    mode,         \* the behaviour of the running (or last) top-level call
    glow_values,  \* the glow table given to g3_draw_polygon_model, or NoGlowTable
    status,       \* "idle", "running", or how the last call ended
    stack,        \* the frames of the nested iterate_polymodel invocations
    calls,        \* top-level calls made so far
    prev,         \* mode and end of the call before this one
    nest_count,   \* the static nest_count of init_model_sub
    instances,    \* g3_start_instance_angles not yet closed by g3_done_instance
    draws,        \* the draw calls issued by this call, in order
    result,       \* the value the last call returned
    facing,       \* the last result of g3_check_normal_facing
    last,         \* the last record dispatch_polymodel_op decoded
    ret,          \* the last return of iterate_polymodel
    ub,           \* undefined behaviour has happened (what kind), or "none"
    glow_reads,   \* the indices at which this call read the glow table, in order
    chunk_list,   \* the caller's chunk list, up to *no_chunks
    new_data      \* the new_data argument of get_chunks, as an address

vars == <<mdl, canvas, grd_curcanv, visits, buf, game, bigendian, ndebug, mode, glow_values, status, stack, calls,
          prev, nest_count, instances, draws, result, facing, last, ret, ub,
          glow_reads, chunk_list, new_data>>

NoLast == [p |-> -1, op |-> -1, n |-> -1, size |-> -1, depth |-> 0, drew |-> 0, thrown |-> FALSE]
NoRet == [start |-> -1, p |-> -1, sum |-> -1, depth |-> 0]
NoPrev == [mode |-> "none", status |-> "none", buf |-> <<>>, chunks |-> <<>>, visits |-> <<>>]
\* The canvases there are, and the ones callers hand to the draw passes (the
\* other choice of argument is the same up to renaming).
Canvases == {"screen", "offscreen"}
CallCanvases == {"screen"}
NoCanvas == "none"
\* One dispatched record: where it is, its opcode and count as the behaviour
\* read them, and the places its branch fields were resolved to.
Visit(p, op, n, to) == [p |-> p, op |-> op, n |-> n, to |-> to]

Init ==
    /\ \E i \in 1..Len(Models) : mdl = Models[i]
    /\ buf = Encode(mdl.streams)
    /\ game \in {"D1", "D2"}
    /\ bigendian \in BOOLEAN
    /\ ndebug \in BOOLEAN
    /\ mode = "none"
    /\ glow_values = NoGlowTable
    /\ status = "idle"
    /\ stack = <<>>
    /\ calls = 0
    /\ prev = NoPrev
    /\ nest_count = 0
    /\ instances = 0
    /\ draws = <<>>
    /\ result = 0
    /\ facing = 0
    /\ last = NoLast
    /\ ret = NoRet
    /\ ub = "none"
    /\ glow_reads = <<>>
    /\ chunk_list = <<>>
    /\ new_data = 0
    /\ canvas = NoCanvas
    /\ grd_curcanv = NoCanvas
    /\ visits = <<>>

(***************************************************************************)
(* Reading and writing the buffer in the host's byte order.                *)
(***************************************************************************)
InBuf(b, p, n) == p >= 0 /\ p + n <= Len(b)
native16(b, p) == IF bigendian THEN b[p + 1] * 256 + b[p + 2] ELSE b[p + 2] * 256 + b[p + 1]
\* w(p): the int16_t at p.
w(b, p) == S16(native16(b, p))
\* *wp(p) = v
put16(b, p, v) ==
    IF bigendian
    THEN [b EXCEPT ![p + 1] = U16(v) \div 256, ![p + 2] = U16(v) % 256]
    ELSE [b EXCEPT ![p + 1] = U16(v) % 256, ![p + 2] = U16(v) \div 256]
\* short_swap(wp(p))
short_swap(b, p) == put16(b, p, SWAPSHORT(w(b, p)))
\* fix_swap(fp(p)): f = SWAPINT(f) reverses the four bytes of the value.
fix_swap(b, p) ==
    [b EXCEPT ![p + 1] = b[p + 4], ![p + 2] = b[p + 3], ![p + 3] = b[p + 2], ![p + 4] = b[p + 1]]
vms_vector_swap(b, p) == fix_swap(fix_swap(fix_swap(b, p), p + 4), p + 8)

(***************************************************************************)
(* External collaborators.                                                 *)
(***************************************************************************)
\* gr_find_closest_color_15bpp: a palette index for a 15 bit colour.
gr_find_closest_color_15bpp(c) == (U16(c) * 7 + 3) % 256
\* g3_check_normal_facing: any sign.
Facings == {-1, 0, 1}

(***************************************************************************)
(* interpreter_base and the overrides of swap_polygon_model_data_state.    *)
(***************************************************************************)
get_raw_opcode(b, p) == U16(w(b, p))
\* INTEL_SHORT on a big-endian host is SWAPSHORT; the swap pass stores the
\* translated tag, and the value of that assignment is an int16_t.
\* get_chunks_state returns INTEL_SHORT(op) and stores nothing.
translate_opcode(m, op) ==
    CASE m = "ByteSwap" -> S16(SWAPSHORT(op))
      [] m = "ChunkCollect" -> IF bigendian THEN SWAPSHORT(op) ELSE op
      [] OTHER -> op
\* A slip: the swap pass leaves the tag as it found it.
translate_store_skipped(m, b, p, op) == b
translate_store(m, b, p, op) == IF m = "ByteSwap" THEN put16(b, p, SWAPSHORT(op)) ELSE b
\* GET_INTEL_SHORT(p): the 16-bit value stored low byte first.
GET_INTEL_SHORT(b, p) == b[p + 1] + 256 * b[p + 2]
get_op_subcount(m, b, p) ==
    CASE m = "ByteSwap" -> SWAPSHORT(w(b, p + 2))
      [] m = "ChunkCollect" -> GET_INTEL_SHORT(b, p + 2)
      [] OTHER -> U16(w(b, p + 2))

(***************************************************************************)
(* dispatch_polymodel_op: the record sizes.                                *)
(***************************************************************************)
defpoints_record_size(n) == n * 12 + 4
\* A slip: the start-index field and its padding are left out of the size.
defp_start_record_size_short(n) == n * 12 + 4
defp_start_record_size(n) == n * 12 + 8
flatpoly_record_size(n) == 30 + (ClearBit0(n) + 1) * 2
\* A slip: the index table is taken to hold n + 1 entries whatever n is.
tmappoly_record_size_unpadded(n) == 30 + (n + 1) * 2 + n * 12
tmappoly_record_size(n) == 30 + (ClearBit0(n) + 1) * 2 + n * 12
sortnorm_record_size == 32
rodbm_record_size == 36
subcall_record_size == 20
glow_record_size == 4
KnownOps == {OP_DEFPOINTS, OP_FLATPOLY, OP_TMAPPOLY, OP_SORTNORM, OP_RODBM, OP_SUBCALL,
             OP_DEFP_START, OP_GLOW}

(***************************************************************************)
(* The frames of the call stack: one per iterate_polymodel invocation,     *)
(* with the state object of that invocation.  phase 0: decoding; 1, 2: in  *)
(* the first, second nested call of op_sortnorm; 3: in that of op_subcall. *)
(***************************************************************************)
\* callp, fieldoff, field: the record that made the call, the offset of the
\* branch field it took and the int16_t in that field.
NewFrame(start, h, callp, field, off) ==
    [start |-> start, p |-> start, phase |-> 0, pend |-> 0, pendoff |-> 0,
     color |-> 0, glow_num |-> GLOW_OFF, highest |-> h,
     sum |-> 0, callp |-> callp, field |-> field, fieldoff |-> off]
Top == stack[Len(stack)]
SetTop(f) == [stack EXCEPT ![Len(stack)] = f]
Decoding == status = "running" /\ stack # <<>> /\ Top.phase = 0
P == Top.p
CurOp == translate_opcode(mode, get_raw_opcode(buf, P))
CurBuf == translate_store(mode, buf, P, get_raw_opcode(buf, P))
CurCount == get_op_subcount(mode, CurBuf, P)

\* Bytes from the record's start that dispatch and the handler access.
Reach(m, op, n) ==
    CASE m = "ChunkCollect" ->
            IF op \in {OP_DEFPOINTS, OP_DEFP_START, OP_FLATPOLY, OP_TMAPPOLY} THEN 4 ELSE 2
      [] op = OP_DEFPOINTS -> IF m \in {"StaticDraw", "ByteSwap"} THEN 4 + 12 * n ELSE 4
      [] op = OP_DEFP_START -> IF m \in {"StaticDraw", "ByteSwap"} THEN 8 + 12 * n
                               ELSE IF m = "MorphDraw" THEN 6 ELSE 4
      [] op = OP_FLATPOLY ->
            CASE m = "ColorProbe" -> IF n > MAX_POINTS_PER_POLY THEN 4 ELSE 30
              [] m = "StaticDraw" -> IF n > MAX_POINTS_PER_POLY THEN 4 ELSE 30 + 2 * n
              [] m = "InitScan" -> IF game = "D1" THEN 30 ELSE 4
              [] OTHER -> 30 + 2 * n
      [] op = OP_TMAPPOLY ->
            CASE m = "ColorProbe" -> 4
              [] m = "InitScan" -> 30
              [] m = "ByteSwap" -> tmappoly_record_size(n)
              [] OTHER -> IF n > MAX_POINTS_PER_POLY THEN 4 ELSE tmappoly_record_size(n)
      [] op = OP_SORTNORM -> 32
      [] op = OP_RODBM -> IF m \in {"StaticDraw", "MorphDraw", "ByteSwap"} THEN 36 ELSE 2
      [] op = OP_SUBCALL -> IF m = "ColorProbe" /\ game = "D2" THEN 2 ELSE 20
      [] op = OP_GLOW -> IF m \in {"StaticDraw", "ByteSwap"} THEN 4 ELSE 2
      [] OTHER -> 2
HasCount(op) == op \in {OP_DEFPOINTS, OP_DEFP_START, OP_FLATPOLY, OP_TMAPPOLY}

\* The next decode step reads or writes outside the buffer, or loops on a
\* negative triangle count (op_flatpoly of the morphing interpreter).
StepUndefined ==
    IF ~InBuf(buf, P, 2) THEN TRUE
    ELSE IF get_raw_opcode(buf, P) = OP_EOF \/ CurOp \notin KnownOps THEN FALSE
    ELSE IF HasCount(CurOp) /\ ~InBuf(buf, P, 4) THEN TRUE
    ELSE IF ~InBuf(buf, P, Reach(mode, CurOp, IF HasCount(CurOp) THEN CurCount ELSE 0)) THEN TRUE
    ELSE mode = "MorphDraw" /\ CurOp = OP_FLATPOLY /\ CurCount < 2
CanDispatch(op) ==
    /\ Decoding
    /\ ~StepUndefined
    /\ get_raw_opcode(buf, P) # OP_EOF
    /\ CurOp = op

(***************************************************************************)
(* How a top-level call ends.                                              *)
(***************************************************************************)
EndCall(how, value) ==
    /\ status' = how
    /\ result' = value
    /\ stack' = <<>>

\* dispatch_polymodel_op returns size after a handler that made no nested call:
\* iterate_polymodel adds it to p.
Advance(stk, fr, size, op, n, drew) ==
    /\ stack' = [stk EXCEPT ![Len(stk)] = [fr EXCEPT !.p = @ + size, !.sum = @ + size, !.phase = 0]]
    /\ last' = [p |-> fr.p, op |-> op, n |-> n, size |-> size, depth |-> Len(stk),
                drew |-> drew, thrown |-> FALSE]

StartCall(m, g, nd, cv, cur) ==
    /\ status \in {"idle", "done", "MalformedModel"}
    /\ ub = "none"
    /\ calls < MaxCalls
    /\ m = "ByteSwap" => bigendian
    /\ glow_values' = IF m = "StaticDraw" THEN g ELSE NoGlowTable
    /\ mode' = m
    /\ calls' = calls + 1
    /\ prev' = [mode |-> mode, status |-> status, buf |-> buf, chunks |-> chunk_list,
                visits |-> visits]
    /\ canvas' = IF m \in {"StaticDraw", "MorphDraw"} THEN cv ELSE NoCanvas
    \* the current canvas is whatever the caller's code last selected; only
    \* g3_draw_polygon_model reads it
    /\ grd_curcanv' = IF m = "StaticDraw" THEN cur ELSE grd_curcanv
    /\ visits' = <<>>
    /\ status' = "running"
    /\ stack' = <<NewFrame(StreamStart(mdl.streams, mdl.entry), -1, -1, 0, 0)>>
    \* g3_init_polygon_model: nest_count = 0; init_model_sub: Assert(++nest_count < 1000)
    /\ nest_count' = IF m = "InitScan" /\ ~ndebug THEN 1 ELSE nest_count
    /\ instances' = 0
    /\ draws' = <<>>
    /\ result' = 0
    /\ facing' = 0
    /\ last' = NoLast
    /\ ret' = NoRet
    /\ glow_reads' = <<>>
    /\ new_data' = IF m = "ChunkCollect" THEN nd ELSE new_data
    /\ UNCHANGED <<mdl, buf, game, bigendian, ndebug, ub, chunk_list>>

\* Undefined behaviour: the call may crash, throw or return.
Undefined ==
    /\ Decoding
    /\ StepUndefined
    /\ ub' = IF InBuf(buf, P, 2) /\ mode = "MorphDraw" /\ CurOp = OP_FLATPOLY /\ CurCount < 2
                  /\ InBuf(buf, P, 4)
             THEN "loop" ELSE "out of bounds"
    /\ \E how \in {"crash", "MalformedModel", "done"} : EndCall(how, result)
    /\ last' = [NoLast EXCEPT !.p = P, !.depth = Len(stack)]
    /\ UNCHANGED <<mdl, canvas, grd_curcanv, visits, new_data, glow_reads, chunk_list, buf, game, bigendian, ndebug, mode, glow_values, calls, prev,
                   nest_count, instances, draws, facing, ret>>

(***************************************************************************)
(* Handlers that make no nested call.  Each gives the state object after   *)
(* the handler (fr), the buffer, the draw calls it issued and whether an   *)
(* Assert() of a debug build failed.                                       *)
(***************************************************************************)
HandledG(fr, b, d, a, r) == [fr |-> fr, buf |-> b, draws |-> d, asserted |-> a, reads |-> r]
Handled(fr, b, d, a) == HandledG(fr, b, d, a, <<>>)
PointIndex(b, p, i) == w(b, p + 30 + 2 * i)
\* prepare_point_list(nv, p)
prepare_point_list(b, p, nv) == [i \in 1..nv |-> PointIndex(b, p, i - 1)]
\* A variant: glow_num compared as a signed value.
GlowValidSigned(fr) == glow_values.has /\ fr.glow_num < Len(glow_values.v)
\* glow_values && glow_num < glow_values->size(), an unsigned comparison
GlowValid(fr) == glow_values.has /\ UnsignedLess(fr.glow_num, Len(glow_values.v))
\* (*glow_values)[glow_num]; g is what a read outside the table yields.
GlowAt(fr, g) ==
    IF fr.glow_num + 1 \in DOMAIN glow_values.v THEN glow_values.v[fr.glow_num + 1] ELSE g
\* What a read outside the table can yield, where the handler would make one.
GlowGarbage == {-3, -2, 0}
GlowOutcomes(m, fr) ==
    IF m = "StaticDraw" /\ GlowValid(fr) /\ fr.glow_num + 1 \notin DOMAIN glow_values.v
    THEN GlowGarbage ELSE {0}
DrawCall(kind, cv, p, nv, color, light, bm, pts) ==
    [kind |-> kind, canvas |-> cv, p |-> p, nv |-> nv, color |-> color,
     light |-> light, bm |-> bm, pts |-> pts]
NormalLight == [src |-> "normal", v |-> 0]
GlowLight(c) == [src |-> "glow", v |-> c]
NoLight == [src |-> "none", v |-> 0]

\* A slip: a nested probe that found nothing leaves the colour as it was.
color_op_sortnorm_keeps(fr, c) == IF c = 0 THEN fr ELSE [fr EXCEPT !.color = c]
\* g3_poly_get_color_state::op_sortnorm: color = g3_poly_get_color(...)
color_op_sortnorm(fr, c) == [fr EXCEPT !.color = c]
\* A slip: a polygon seen edge-on counts as facing.
color_op_flatpoly_edge_on(fr, b, p, nv, f) ==
    IF nv > MAX_POINTS_PER_POLY THEN fr
    ELSE IF f >= 0
         THEN [fr EXCEPT !.color = IF game = "D1" THEN w(b, p + 28)
                                   ELSE gr_find_closest_color_15bpp(w(b, p + 28))]
         ELSE fr
\* g3_poly_get_color_state::op_flatpoly
color_op_flatpoly(fr, b, p, nv, f) ==
    IF nv > MAX_POINTS_PER_POLY THEN fr
    ELSE IF f > 0
         THEN [fr EXCEPT !.color = IF game = "D1" THEN w(b, p + 28)
                                   ELSE gr_find_closest_color_15bpp(w(b, p + 28))]
         ELSE fr

\* A slip: the vertex-count limit is not tested.
static_op_flatpoly_unlimited(fr, b, p, nv, f, g) ==
    IF f > 0
    THEN Handled(fr, b, <<DrawCall("poly", grd_curcanv, p, nv, w(b, p + 28) % 256, NoLight, -1,
                                   prepare_point_list(b, p, nv))>>, FALSE)
    ELSE Handled(fr, b, <<>>, FALSE)
\* g3_draw_polygon_model_state::op_flatpoly
static_op_flatpoly(fr, b, p, nv, f, g) ==
    IF nv > MAX_POINTS_PER_POLY THEN Handled(fr, b, <<>>, FALSE)
    ELSE IF f > 0
         THEN IF game = "D2" /\ GlowValid(fr) /\ GlowAt(fr, g) = -3
              THEN HandledG(fr, b, <<>>, FALSE, <<fr.glow_num>>)
              ELSE LET color == IF game = "D1" THEN w(b, p + 28) % 256
                                ELSE IF GlowValid(fr) /\ GlowAt(fr, g) = -2 THEN 255
                                     ELSE gr_find_closest_color_15bpp(w(b, p + 28))
                   IN HandledG(fr, b,
                               <<DrawCall("poly", grd_curcanv, p, nv, color, NoLight, -1,
                                          prepare_point_list(b, p, nv))>>, FALSE,
                               IF game = "D2" /\ GlowValid(fr)
                               THEN <<fr.glow_num, fr.glow_num>> ELSE <<>>)
         ELSE Handled(fr, b, <<>>, FALSE)

\* A slip: the glow cursor keeps its value after it was used.
static_op_tmappoly_keeps(fr, b, p, nv, f, g) ==
    IF nv > MAX_POINTS_PER_POLY THEN Handled(fr, b, <<>>, FALSE)
    ELSE IF ~(f > 0) THEN Handled(fr, b, <<>>, FALSE)
    ELSE IF GlowValid(fr)
         THEN HandledG(fr, b,
                       <<DrawCall("tmap", canvas, p, nv, -1, GlowLight(GlowAt(fr, g)),
                                  w(b, p + 28), prepare_point_list(b, p, nv))>>, FALSE,
                       <<fr.glow_num>>)
         ELSE Handled(fr, b,
                      <<DrawCall("tmap", canvas, p, nv, -1, NormalLight,
                                 w(b, p + 28), prepare_point_list(b, p, nv))>>, FALSE)
\* g3_draw_polygon_model_state::op_tmappoly
static_op_tmappoly(fr, b, p, nv, f, g) ==
    IF nv > MAX_POINTS_PER_POLY THEN Handled(fr, b, <<>>, FALSE)
    ELSE IF ~(f > 0) THEN Handled(fr, b, <<>>, FALSE)
    ELSE IF GlowValid(fr)
         THEN HandledG([fr EXCEPT !.glow_num = GLOW_OFF], b,
                       <<DrawCall("tmap", canvas, p, nv, -1, GlowLight(GlowAt(fr, g)),
                                  w(b, p + 28), prepare_point_list(b, p, nv))>>, FALSE,
                       <<fr.glow_num>>)
         ELSE Handled(fr, b,
                      <<DrawCall("tmap", canvas, p, nv, -1, NormalLight,
                                 w(b, p + 28), prepare_point_list(b, p, nv))>>, FALSE)

\* g3_draw_morphing_model_state::op_flatpoly: a fan of nv - 2 triangles.
\* A slip: point_list[0] moves along too, which makes a strip of the fan.
morph_op_flatpoly_strip(b, p, nv) ==
    [k \in 1..(nv - 2) |->
        DrawCall("tri", canvas, p, 3, w(b, p + 28) % 256, NoLight, -1,
                 <<PointIndex(b, p, k - 1), PointIndex(b, p, k), PointIndex(b, p, k + 1)>>)]
morph_op_flatpoly(b, p, nv) ==
    [k \in 1..(nv - 2) |->
        DrawCall("tri", canvas, p, 3, w(b, p + 28) % 256, NoLight, -1,
                 <<PointIndex(b, p, 0), PointIndex(b, p, k), PointIndex(b, p, k + 1)>>)]

\* A slip: the vertex-count limit is not tested.
morph_op_tmappoly_unlimited(b, p, nv) ==
    <<DrawCall("tmap", canvas, p, nv, -1, NormalLight, w(b, p + 28),
               prepare_point_list(b, p, nv))>>
\* g3_draw_morphing_model_state::op_tmappoly
morph_op_tmappoly(b, p, nv) ==
    IF nv > MAX_POINTS_PER_POLY THEN <<>>
    ELSE <<DrawCall("tmap", canvas, p, nv, -1, NormalLight, w(b, p + 28),
                    prepare_point_list(b, p, nv))>>

\* A variant: the colour field is left as it is in every build.
init_op_flatpoly_readonly(fr, b, p, nv) ==
    IF ~ndebug /\ ~(nv > 2) THEN Handled(fr, b, <<>>, TRUE)
    ELSE Handled(fr, b, <<>>, FALSE)
\* init_model_sub_state::op_flatpoly
init_op_flatpoly(fr, b, p, nv) ==
    IF ~ndebug /\ ~(nv > 2) THEN Handled(fr, b, <<>>, TRUE)
    ELSE Handled(fr, IF game = "D1" THEN put16(b, p + 28, gr_find_closest_color_15bpp(w(b, p + 28)))
                     ELSE b, <<>>, FALSE)

\* A variant: the Assert also rejects a vertex count above the maximum.
init_op_tmappoly_limited(fr, b, p, nv) ==
    IF ~ndebug /\ ~(nv > 2 /\ nv <= MAX_POINTS_PER_POLY) THEN Handled(fr, b, <<>>, TRUE)
    ELSE Handled(IF w(b, p + 28) > fr.highest THEN [fr EXCEPT !.highest = w(b, p + 28)] ELSE fr,
                 b, <<>>, FALSE)
\* A slip: the texture index of the last record wins instead of the greatest.
init_op_tmappoly_last(fr, b, p, nv) ==
    IF ~ndebug /\ ~(nv > 2) THEN Handled(fr, b, <<>>, TRUE)
    ELSE Handled([fr EXCEPT !.highest = w(b, p + 28)], b, <<>>, FALSE)
\* init_model_sub_state::op_tmappoly
init_op_tmappoly(fr, b, p, nv) ==
    IF ~ndebug /\ ~(nv > 2) THEN Handled(fr, b, <<>>, TRUE)
    ELSE Handled(IF w(b, p + 28) > fr.highest THEN [fr EXCEPT !.highest = w(b, p + 28)] ELSE fr,
                 b, <<>>, FALSE)

\* The loops of swap_polygon_model_data_state.
RECURSIVE SwapVectors(_, _, _)
SwapVectors(b, p, n) == IF n = 0 THEN b ELSE SwapVectors(vms_vector_swap(b, p), p + 12, n - 1)
RECURSIVE SwapShorts(_, _, _)
SwapShorts(b, p, n) == IF n = 0 THEN b ELSE SwapShorts(short_swap(b, p), p + 2, n - 1)
RECURSIVE SwapUV(_, _, _)
SwapUV(b, p, n) == IF n = 0 THEN b ELSE SwapUV(fix_swap(fix_swap(b, p), p + 4), p + 12, n - 1)

swap_op_defpoints(b, p, n) == SwapVectors(put16(b, p + 2, n), p + 4, n)
swap_op_defp_start(b, p, n) == SwapVectors(short_swap(put16(b, p + 2, n), p + 4), p + 8, n)
\* A slip: the vertex count is left in the order it was found in.
swap_op_flatpoly_keeps_count(b, p, n) ==
    SwapShorts(short_swap(vms_vector_swap(vms_vector_swap(b, p + 4), p + 16), p + 28), p + 30, n)
swap_op_flatpoly(b, p, n) ==
    SwapShorts(short_swap(vms_vector_swap(vms_vector_swap(put16(b, p + 2, n), p + 4), p + 16),
                          p + 28), p + 30, n)
swap_op_tmappoly(b, p, n) ==
    SwapShorts(short_swap(SwapUV(vms_vector_swap(vms_vector_swap(put16(b, p + 2, n), p + 4), p + 16),
                                 p + 30 + (ClearBit0(n) + 1) * 2, n),
                          p + 28), p + 30, n)
swap_op_sortnorm(b, p) ==
    short_swap(short_swap(vms_vector_swap(vms_vector_swap(b, p + 4), p + 16), p + 28), p + 30)
swap_op_rodbm(b, p) ==
    fix_swap(fix_swap(short_swap(vms_vector_swap(vms_vector_swap(b, p + 20), p + 4), p + 2),
                      p + 16), p + 32)
swap_op_subcall(b, p) == short_swap(vms_vector_swap(short_swap(b, p + 2), p + 4), p + 16)
swap_op_glow(b, p) == short_swap(b, p + 2)

\* op_defpoints, op_defp_start, op_rodbm, op_glow: the point list is the
\* caller's; only the swap pass changes the buffer.
op_defpoints(m, fr, b, p, n) ==
    Handled(fr, IF m = "ByteSwap" THEN swap_op_defpoints(b, p, n) ELSE b, <<>>, FALSE)
op_defp_start(m, fr, b, p, n) ==
    Handled(fr, IF m = "ByteSwap" THEN swap_op_defp_start(b, p, n) ELSE b, <<>>, FALSE)
op_flatpoly(m, fr, b, p, nv, f, g) ==
    CASE m = "ColorProbe" -> Handled(color_op_flatpoly(fr, b, p, nv, f), b, <<>>, FALSE)
      [] m = "StaticDraw" -> static_op_flatpoly(fr, b, p, nv, f, g)
      [] m = "MorphDraw" -> Handled(fr, b, morph_op_flatpoly(b, p, nv), FALSE)
      [] m = "InitScan" -> init_op_flatpoly(fr, b, p, nv)
      [] m = "ByteSwap" -> Handled(fr, swap_op_flatpoly(b, p, nv), <<>>, FALSE)
      [] m = "ChunkCollect" -> Handled(fr, b, <<>>, FALSE)
op_tmappoly(m, fr, b, p, nv, f, g) ==
    CASE m = "ColorProbe" -> Handled(fr, b, <<>>, FALSE)
      [] m = "StaticDraw" -> static_op_tmappoly(fr, b, p, nv, f, g)
      [] m = "MorphDraw" -> Handled(fr, b, morph_op_tmappoly(b, p, nv), FALSE)
      [] m = "InitScan" -> init_op_tmappoly(fr, b, p, nv)
      [] m = "ByteSwap" -> Handled(fr, swap_op_tmappoly(b, p, nv), <<>>, FALSE)
      [] m = "ChunkCollect" -> Handled(fr, b, <<>>, FALSE)
\* g3_interpreter_draw_base::op_rodbm
op_rodbm(m, fr, b, p) ==
    CASE m \in {"StaticDraw", "MorphDraw"} ->
            Handled(fr, b, <<DrawCall("rod", canvas, p, 2, -1, NoLight, w(b, p + 2), <<>>)>>, FALSE)
      [] m = "ByteSwap" -> Handled(fr, swap_op_rodbm(b, p), <<>>, FALSE)
      [] OTHER -> Handled(fr, b, <<>>, FALSE)
\* g3_draw_polygon_model_state::op_glow: glow_num = w(p+2), an unsigned
op_glow(m, fr, b, p) ==
    CASE m = "StaticDraw" -> Handled([fr EXCEPT !.glow_num = w(b, p + 2)], b, <<>>, FALSE)
      [] m = "ByteSwap" -> Handled(fr, swap_op_glow(b, p), <<>>, FALSE)
      [] OTHER -> Handled(fr, b, <<>>, FALSE)

UsesFacing(m, op, n) ==
    CASE op = OP_FLATPOLY -> m \in {"ColorProbe", "StaticDraw"} /\ n <= MAX_POINTS_PER_POLY
      [] op = OP_TMAPPOLY -> m = "StaticDraw" /\ n <= MAX_POINTS_PER_POLY
      [] op = OP_SORTNORM -> m \in {"ColorProbe", "StaticDraw", "MorphDraw"}
      [] OTHER -> FALSE
FacingResults(m, op, n) == IF UsesFacing(m, op, n) THEN Facings ELSE {facing}

\* The step of iterate_polymodel for a record whose handler is h.
Finish(h, size, op, n, f) ==
    /\ buf' = h.buf
    /\ draws' = draws \o h.draws
    /\ glow_reads' = glow_reads \o h.reads
    /\ facing' = f
    /\ IF h.asserted
       THEN /\ status' = "assert"
            /\ stack' = <<>>
            /\ last' = [NoLast EXCEPT !.p = P, !.op = op, !.n = n, !.depth = Len(stack)]
       ELSE /\ status' = status
            /\ Advance(stack, h.fr, size, op, n, Len(h.draws))
    /\ visits' = Append(visits, Visit(P, op, n, <<>>))
    /\ UNCHANGED <<mdl, canvas, grd_curcanv, new_data, chunk_list, game, bigendian, ndebug, mode, glow_values, calls, prev,
                   nest_count, instances, result, ret, ub>>

OpDefpoints ==
    /\ CanDispatch(OP_DEFPOINTS)
    /\ Finish(op_defpoints(mode, Top, CurBuf, P, CurCount),
              defpoints_record_size(CurCount), OP_DEFPOINTS, CurCount, facing)
OpDefpStart ==
    /\ CanDispatch(OP_DEFP_START)
    /\ Finish(op_defp_start(mode, Top, CurBuf, P, CurCount),
              defp_start_record_size(CurCount), OP_DEFP_START, CurCount, facing)
OpFlatpoly ==
    /\ CanDispatch(OP_FLATPOLY)
    /\ \E f \in FacingResults(mode, OP_FLATPOLY, CurCount), g \in GlowOutcomes(mode, Top) :
          Finish(op_flatpoly(mode, Top, CurBuf, P, CurCount, f, g),
                 flatpoly_record_size(CurCount), OP_FLATPOLY, CurCount, f)
OpTmappoly ==
    /\ CanDispatch(OP_TMAPPOLY)
    /\ \E f \in FacingResults(mode, OP_TMAPPOLY, CurCount), g \in GlowOutcomes(mode, Top) :
          Finish(op_tmappoly(mode, Top, CurBuf, P, CurCount, f, g),
                 tmappoly_record_size(CurCount), OP_TMAPPOLY, CurCount, f)
OpRodbm ==
    /\ CanDispatch(OP_RODBM)
    /\ Finish(op_rodbm(mode, Top, CurBuf, P), rodbm_record_size, OP_RODBM, 0, facing)
OpGlow ==
    /\ CanDispatch(OP_GLOW)
    /\ Finish(op_glow(mode, Top, CurBuf, P), glow_record_size, OP_GLOW, 0, facing)

(***************************************************************************)
(* get_chunks_state: the chunk list with how the last add_chunk went.      *)
(***************************************************************************)
ChunkRun(list) == [list |-> list, how |-> "ok"]
\* A slip: the entry is written but the count is not advanced.
add_chunk_uncounted(cl, old_base, new_base, offset) == cl
\* add_chunk: Assert(*no_chunks + 1 < MAX_CHUNKS), then the entry is written
\* at chunk_list[*no_chunks], which lies outside a full list.
add_chunk(cl, old_base, new_base, offset) ==
    IF cl.how # "ok" THEN cl
    ELSE IF ~ndebug /\ ~(Len(cl.list) + 1 < MAX_CHUNKS) THEN [cl EXCEPT !.how = "assert"]
    ELSE IF Len(cl.list) >= MAX_CHUNKS THEN [cl EXCEPT !.how = "ub"]
    ELSE [cl EXCEPT !.list = Append(@, [old_base |-> old_base, new_base |-> new_base,
                                        offset |-> offset, correction |-> 0])]
\* get_chunks_state::op_sortnorm, op_subcall: p - data + new_data
chunks_op_sortnorm(list, p, data, nd) ==
    add_chunk(add_chunk(ChunkRun(list), p, p - data + nd, 28), p, p - data + nd, 30)
chunks_op_subcall(list, p, data, nd) == add_chunk(ChunkRun(list), p, p - data + nd, 16)
\* The step of iterate_polymodel for a record get_chunks_state handled.
ChunkStep(cl, size, op) ==
    /\ chunk_list' = cl.list
    /\ CASE cl.how = "ok" ->
               /\ Advance(stack, Top, size, op, 0, 0)
               /\ UNCHANGED <<status, ub>>
         [] cl.how = "assert" ->
               /\ status' = "assert"
               /\ stack' = <<>>
               /\ last' = [NoLast EXCEPT !.p = P, !.op = op, !.depth = Len(stack)]
               /\ ub' = ub
         [] cl.how = "ub" ->
               /\ ub' = "out of bounds"
               /\ \E how \in {"crash", "MalformedModel", "done"} : status' = how
               /\ stack' = <<>>
               /\ last' = [NoLast EXCEPT !.p = P, !.op = op, !.depth = Len(stack)]

(***************************************************************************)
(* Handlers that call the interpreter again.                               *)
(***************************************************************************)
\* A slip: the front branch comes first when the normal faces the viewer.
get_sortnorm_offsets_front_first(b, p, f) ==
    LET a == U16(w(b, p + 30))
        bb == U16(w(b, p + 28))
    IN IF f > 0 THEN <<bb, a>> ELSE <<a, bb>>
\* g3_interpreter_draw_base::get_sortnorm_offsets
get_sortnorm_offsets(b, p, f) ==
    LET a == U16(w(b, p + 30))
        bb == U16(w(b, p + 28))
    IN IF f > 0 THEN <<a, bb>> ELSE <<bb, a>>
\* The field op_sortnorm resolves first (the other one comes second).
sortnorm_first_field(m, f) ==
    CASE m = "ColorProbe" -> IF f > 0 THEN 28 ELSE 30
      [] m \in {"StaticDraw", "MorphDraw"} -> IF f > 0 THEN 30 ELSE 28
      [] OTHER -> 28
\* Where the first nested call of op_sortnorm starts.
sortnorm_first_target(m, b, p, f) ==
    CASE m = "ColorProbe" -> IF f > 0 THEN p + w(b, p + 28) ELSE p + w(b, p + 30)
      [] m \in {"StaticDraw", "MorphDraw"} -> p + get_sortnorm_offsets(b, p, f)[1]
      [] OTHER -> p + w(b, p + 28)
\* Where the second one starts: the draw passes computed it before the first call.
sortnorm_second_target(m, b, parent) ==
    IF m \in {"StaticDraw", "MorphDraw"} THEN parent.pend ELSE parent.p + w(b, parent.p + 30)
\* Where a branch field of op_sortnorm leads: the draw passes read it as a
\* uint16_t, the others add w() to p.
branch_target(m, b, p, off) ==
    IF m \in {"StaticDraw", "MorphDraw"} THEN p + U16(w(b, p + off)) ELSE p + w(b, p + off)
\* op_subcall: p + w(p+16)
subcall_target(b, p) == p + w(b, p + 16)
\* interpreter_base::op_default throws std::runtime_error
\* A slip: op_default returns, and dispatch_polymodel_op then returns 2.
op_default_returns == FALSE
op_default_throws == TRUE

\* A slip: the nested call takes over the glow index of the stream it came from.
PushCall_inherits(stk, parent, target, h, field, off) ==
    LET counted == mode = "InitScan" /\ ~ndebug
    IN /\ nest_count' = IF counted THEN nest_count + 1 ELSE nest_count
       /\ IF counted /\ ~(nest_count + 1 < NEST_LIMIT)
          THEN status' = "assert" /\ stack' = <<>>
          ELSE IF Len(stk) >= MaxDepth
               THEN /\ \E how \in (IF counted THEN {"crash", "assert"} ELSE {"crash"}) :
                          status' = how
                    /\ stack' = <<>>
               ELSE /\ status' = status
                    /\ stack' = Append([stk EXCEPT ![Len(stk)] = parent],
                                       [NewFrame(target, h, parent.p, field, off)
                                           EXCEPT !.glow_num = parent.glow_num])
\* A nested entry-point call from the record at parent.p.  init_model_sub counts
\* it (Assert(++nest_count < 1000)); the host's stack bounds the recursion.
\* Recursion deeper than MaxDepth is not followed: it exhausts the stack, or,
\* where the calls are counted, may reach the assertion first.
PushCall(stk, parent, target, h, field, off) ==
    LET counted == mode = "InitScan" /\ ~ndebug
    IN /\ nest_count' = IF counted THEN nest_count + 1 ELSE nest_count
       /\ IF counted /\ ~(nest_count + 1 < NEST_LIMIT)
          THEN status' = "assert" /\ stack' = <<>>
          ELSE IF Len(stk) >= MaxDepth
               THEN /\ \E how \in (IF counted THEN {"crash", "assert"} ELSE {"crash"}) :
                          status' = how
                    /\ stack' = <<>>
               ELSE /\ status' = status
                    /\ stack' = Append([stk EXCEPT ![Len(stk)] = parent],
                                       NewFrame(target, h, parent.p, field, off))

OpSortnorm ==
    /\ CanDispatch(OP_SORTNORM)
    /\ IF mode = "ChunkCollect"
       THEN /\ ChunkStep(chunks_op_sortnorm(chunk_list, P, Top.start, new_data),
                         sortnorm_record_size, OP_SORTNORM)
            /\ UNCHANGED <<buf, facing, nest_count>>
       ELSE /\ \E f \in FacingResults(mode, OP_SORTNORM, 0) :
                  LET b1 == IF mode = "ByteSwap" THEN swap_op_sortnorm(CurBuf, P) ELSE CurBuf
                      off1 == sortnorm_first_field(mode, f)
                      parent == [Top EXCEPT !.phase = 1, !.pendoff = 58 - off1,
                                            !.pend = IF mode \in {"StaticDraw", "MorphDraw"}
                                                     THEN P + get_sortnorm_offsets(b1, P, f)[2]
                                                     ELSE 0]
                  IN /\ buf' = b1
                     /\ facing' = f
                     /\ PushCall(stack, parent, sortnorm_first_target(mode, b1, P, f),
                                 Top.highest, w(b1, P + off1), off1)
            /\ UNCHANGED <<chunk_list, last, ub>>
    /\ visits' = Append(visits, Visit(P, OP_SORTNORM, 0,
                   IF mode = "ChunkCollect" THEN <<>>
                   ELSE LET b1 == IF mode = "ByteSwap" THEN swap_op_sortnorm(CurBuf, P) ELSE CurBuf
                        IN <<branch_target(mode, b1, P, 28), branch_target(mode, b1, P, 30)>>))
    /\ UNCHANGED <<mdl, canvas, grd_curcanv, new_data, glow_reads, game, bigendian, ndebug, mode, glow_values, calls,
                   prev, instances, draws, result, ret>>

OpSubcall ==
    /\ CanDispatch(OP_SUBCALL)
    /\ IF mode = "ChunkCollect"
       THEN /\ ChunkStep(chunks_op_subcall(chunk_list, P, Top.start, new_data),
                         subcall_record_size, OP_SUBCALL)
            /\ UNCHANGED <<buf, nest_count, instances>>
       ELSE IF mode = "ColorProbe" /\ game = "D2"
       THEN /\ Advance(stack, Top, subcall_record_size, OP_SUBCALL, 0, 0)
            /\ UNCHANGED <<buf, status, nest_count, instances, chunk_list, ub>>
       ELSE LET b1 == IF mode = "ByteSwap" THEN swap_op_subcall(CurBuf, P) ELSE CurBuf
            IN /\ buf' = b1
               \* g3_start_instance_angles
               /\ instances' = IF mode \in {"StaticDraw", "MorphDraw"} THEN instances + 1
                               ELSE instances
               /\ PushCall(stack, [Top EXCEPT !.phase = 3], subcall_target(b1, P), Top.highest,
                           w(b1, P + 16), 16)
               /\ UNCHANGED <<last, chunk_list, ub>>
    /\ visits' = Append(visits, Visit(P, OP_SUBCALL, 0,
                   IF mode = "ChunkCollect" \/ (mode = "ColorProbe" /\ game = "D2") THEN <<>>
                   ELSE LET b1 == IF mode = "ByteSwap" THEN swap_op_subcall(CurBuf, P) ELSE CurBuf
                        IN <<subcall_target(b1, P)>>))
    /\ UNCHANGED <<mdl, canvas, grd_curcanv, new_data, glow_reads, game, bigendian, ndebug, mode, glow_values, calls,
                   prev, draws, result, facing, ret>>

\* default: state.op_default(); return 2;
OpDefault ==
    /\ Decoding
    /\ InBuf(buf, P, 2)
    /\ get_raw_opcode(buf, P) # OP_EOF
    /\ CurOp \notin KnownOps
    /\ buf' = CurBuf
    /\ IF op_default_throws
       THEN /\ status' = "MalformedModel"
            /\ stack' = <<>>
            /\ last' = [NoLast EXCEPT !.p = P, !.op = CurOp, !.depth = Len(stack), !.thrown = TRUE]
       ELSE /\ status' = status
            /\ Advance(stack, Top, 2, CurOp, 0, 0)
    /\ visits' = Append(visits, Visit(P, CurOp, 0, <<>>))
    /\ UNCHANGED <<mdl, canvas, grd_curcanv, new_data, glow_reads, chunk_list, game, bigendian, ndebug, mode, glow_values, calls, prev,
                   nest_count, instances, draws, result, facing, ret, ub>>

(***************************************************************************)
(* iterate_polymodel meets OP_EOF and returns p.                           *)
(***************************************************************************)
AtEof == Decoding /\ InBuf(buf, P, 2) /\ get_raw_opcode(buf, P) = OP_EOF
Returned == [start |-> Top.start, p |-> P, sum |-> Top.sum, depth |-> Len(stack)]
Caller == stack[Len(stack) - 1]
Below == SubSeq(stack, 1, Len(stack) - 1)

\* The entry point returns to its caller.
ReturnTop ==
    /\ AtEof
    /\ Len(stack) = 1
    /\ ret' = Returned
    /\ EndCall("done", CASE mode = "ColorProbe" -> Top.color
                         [] mode = "InitScan" -> Top.highest
                         \* get_chunks: return p + 2 - data
                         [] mode = "ChunkCollect" -> P + 2 - Top.start
                         [] OTHER -> 0)
    /\ UNCHANGED <<mdl, canvas, grd_curcanv, visits, new_data, glow_reads, chunk_list, buf, game, bigendian, ndebug, mode, glow_values, calls, prev,
                   nest_count, instances, draws, facing, last, ub>>

\* The first nested call of op_sortnorm returns.
ReturnSortnormFirst ==
    /\ AtEof
    /\ Len(stack) > 1
    /\ Caller.phase = 1
    /\ ret' = Returned
    /\ IF mode = "ColorProbe"
       THEN /\ Advance(Below, color_op_sortnorm(Caller, Top.color), sortnorm_record_size,
                       OP_SORTNORM, 0, 0)
            /\ UNCHANGED <<status, nest_count>>
       ELSE /\ PushCall(Below, [Caller EXCEPT !.phase = 2],
                        sortnorm_second_target(mode, buf, Caller), Top.highest,
                        w(buf, Caller.p + Caller.pendoff), Caller.pendoff)
            /\ last' = last
    /\ UNCHANGED <<mdl, canvas, grd_curcanv, visits, new_data, glow_reads, chunk_list, buf, game, bigendian, ndebug, mode, glow_values, calls, prev,
                   instances, draws, result, facing, ub>>

\* The second nested call of op_sortnorm returns.
ReturnSortnormSecond ==
    /\ AtEof
    /\ Len(stack) > 1
    /\ Caller.phase = 2
    /\ ret' = Returned
    /\ Advance(Below, IF mode = "InitScan" THEN [Caller EXCEPT !.highest = Top.highest] ELSE Caller,
               sortnorm_record_size, OP_SORTNORM, 0, 0)
    /\ UNCHANGED <<mdl, canvas, grd_curcanv, visits, new_data, glow_reads, chunk_list, buf, game, bigendian, ndebug, mode, glow_values, status, calls, prev,
                   nest_count, instances, draws, result, facing, ub>>

\* The nested call of op_subcall returns.
ReturnSubcall ==
    /\ AtEof
    /\ Len(stack) > 1
    /\ Caller.phase = 3
    /\ ret' = Returned
    \* g3_done_instance
    /\ instances' = IF mode \in {"StaticDraw", "MorphDraw"} THEN instances - 1 ELSE instances
    /\ Advance(Below, CASE mode = "InitScan" -> [Caller EXCEPT !.highest = Top.highest]
                        [] mode = "ColorProbe" -> [Caller EXCEPT !.color = Top.color]
                        [] OTHER -> Caller,
               subcall_record_size, OP_SUBCALL, 0, 0)
    /\ UNCHANGED <<mdl, canvas, grd_curcanv, visits, new_data, glow_reads, chunk_list, buf, game, bigendian, ndebug, mode, glow_values, status, calls, prev,
                   nest_count, draws, result, facing, ub>>

Next ==
    \/ \E m \in Modes, g \in GlowTables, nd \in NewDataAddrs, cv \in CallCanvases,
          cur \in Canvases :
          StartCall(m, g, nd, cv, cur)
    \/ OpDefpoints
    \/ OpDefpStart
    \/ OpFlatpoly
    \/ OpTmappoly
    \/ OpSortnorm
    \/ OpRodbm
    \/ OpSubcall
    \/ OpGlow
    \/ OpDefault
    \/ ReturnTop
    \/ ReturnSortnormFirst
    \/ ReturnSortnormSecond
    \/ ReturnSubcall
    \/ Undefined

Spec == Init /\ [][Next]_vars

TypeOK ==
    /\ status \in {"idle", "running"} \cup Final
    /\ calls \in 0..MaxCalls
    /\ Len(stack) <= MaxDepth
    /\ \A i \in 1..Len(buf) : buf[i] \in 0..255

(***************************************************************************)
(* What the claims speak of.                                               *)
(***************************************************************************)
Streams == mdl.streams
EntryPos == StreamStart(Streams, mdl.entry)
Targets(r) ==
    CASE r.op = "sortnorm" -> {r.front, r.back}
      [] r.op = "subcall" -> {r.to}
      [] OTHER -> {}
\* The streams the records of stream s lead to.
Succ(m, s) == {t.s : t \in {u \in UNION {Targets(m[s][i]) : i \in 1..Len(m[s])} : u.k = "stream"}}
RECURSIVE Closure(_, _, _)
Closure(m, S, k) ==
    IF k = 0 THEN S ELSE Closure(m, S \cup UNION {Succ(m, s) : s \in S}, k - 1)
\* The streams a traversal from stream s enters, s included.
ReachableFrom(m, s) == Closure(m, {s}, Len(m))
\* Every branch leads to the start of a stream, no stream leads back to
\* itself, and every opcode is a known one.
WellFormedModel(m) ==
    /\ \A s \in 1..Len(m) : \A i \in 1..Len(m[s]) :
          /\ m[s][i].op # "bad"
          /\ \A t \in Targets(m[s][i]) : t.k = "stream"
    /\ \A s \in 1..Len(m) : s \notin Closure(m, Succ(m, s), Len(m))
\* The running (or last) call was given a well-formed buffer in the byte
\* order it expects: the file's order for the swap pass, the host's order
\* for the others (on a big-endian host, after one complete swap pass).
WellFormedCall ==
    /\ calls > 0
    /\ WellFormedModel(Streams)
    /\ ub = "none"
    /\ IF mode = "ByteSwap" THEN prev.buf = Encode(Streams)
       ELSE IF mode = "ChunkCollect" THEN bigendian => prev.mode # "ByteSwap"
       ELSE bigendian => (calls = 2 /\ prev.mode = "ByteSwap" /\ prev.status = "done")
IsStreamStart(pos) == \E s \in 1..Len(Streams) : pos = StreamStart(Streams, s)
StreamAt(pos) == CHOOSE s \in 1..Len(Streams) : pos = StreamStart(Streams, s)
RecordPositions(s) == {RecPos(Streams, s, i) : i \in 1..(Len(Streams[s]) + 1)}

\* C1: in a well-formed buffer every iterate_polymodel invocation started at
\* the start s of a stream is at a record boundary of that stream, with p =
\* s + the sizes dispatch_polymodel_op returned so far, and it returns the
\* position of the stream's end-of-stream tag: records are decoded back to
\* back, with no gap and no overlap.
C1_TraversalFollowsLayout ==
    WellFormedCall =>
        /\ \A i \in 1..Len(stack) :
              IsStreamStart(stack[i].start) =>
                 /\ stack[i].p = stack[i].start + stack[i].sum
                 /\ stack[i].p \in RecordPositions(StreamAt(stack[i].start))
        /\ (ret # NoRet /\ IsStreamStart(ret.start)) =>
                 /\ ret.p = EofPos(Streams, StreamAt(ret.start))
                 /\ ret.p = ret.start + ret.sum
                 /\ get_raw_opcode(buf, ret.p) = OP_EOF
C1_Witness ==
    /\ WellFormedCall
    /\ status = "done"
    /\ mode = "ByteSwap"
    /\ ret.depth = 1
    /\ ret.sum > 100
    /\ Len(Streams) = 4
    /\ last.op = OP_TMAPPOLY

\* n rounded up to an odd number.
round_up_odd(n) == IF n % 2 = 1 THEN n ELSE n + 1
DecodedPolygon == last.op \in {OP_FLATPOLY, OP_TMAPPOLY} /\ last.size >= 0
UnknownOpcodeNext ==
    /\ Decoding
    /\ InBuf(buf, P, 2)
    /\ get_raw_opcode(buf, P) # OP_EOF
    /\ CurOp \notin KnownOps
\* C3: a record whose translated opcode is not a known one ends the call
\* with MalformedModel in that very step: no draw call, no instance, no
\* nested call and no result come of it, the buffer keeps its bytes (but for
\* the tag the swap pass translates), the failure is recorded at the
\* record's own position, and once the call has failed the only step left
\* is the caller's next top-level call: no enclosing loop decodes again.
C3_UnknownOpcodeAborts ==
    [][/\ UnknownOpcodeNext =>
            /\ status' = "MalformedModel"
            /\ last'.thrown /\ last'.p = P /\ last'.depth = Len(stack)
            /\ stack' = <<>>
            /\ buf' = translate_store(mode, buf, P, get_raw_opcode(buf, P))
            /\ UNCHANGED <<draws, instances, nest_count, result, ret, calls>>
       /\ status = "MalformedModel" => (calls' = calls + 1 /\ status' = "running")]_vars
C3_Witness ==
    /\ status = "MalformedModel"
    /\ last.thrown
    /\ last.depth = 3
    /\ mode = "StaticDraw"
    /\ ub = "none"

\* C4 as stated: no access outside the buffer ever happens, and no nested
\* traversal entered through a SubmodelCall starts outside the buffer.
C4_SubcallStaysInBuffer ==
    /\ ub # "out of bounds"
    /\ \A i \in 2..Len(stack) :
          stack[i - 1].phase = 3 => InBuf(buf, stack[i].start, 2)

\* C5 as stated: every nested traversal starts at the position of the
\* record that called it plus its branch field read as a signed 16-bit value.
C5_SignedBranchTarget ==
    \A i \in 2..Len(stack) : stack[i].start = stack[i].callp + stack[i].field

\* The second of two successive swap_polygon_model_data calls has ended,
\* the first one having completed.
SwappedTwice ==
    /\ calls = 2
    /\ mode = "ByteSwap"
    /\ prev.mode = "ByteSwap"
    /\ prev.status = "done"
    /\ status \in Final
    /\ ub = "none"
\* C6 as stated: the second run completes too and the buffer has the bytes
\* it had before the first run.
C6_SwapTwiceRestores ==
    SwappedTwice => (status = "done" /\ buf = Encode(Streams))
\* C6 amended: the second run completes and leaves the original bytes only
\* when the stream at data starts with EndOfStream (neither run then changes
\* anything); otherwise the second run fails with MalformedModel at the
\* first record, having swapped back that record's tag and nothing else.
C6_SecondSwapFailsAtFirstRecord ==
    SwappedTwice =>
        IF get_raw_opcode(Encode(Streams), EntryPos) = OP_EOF
        THEN status = "done" /\ buf = Encode(Streams)
        ELSE /\ status = "MalformedModel"
             /\ last.thrown /\ last.p = EntryPos
             /\ buf = short_swap(prev.buf, EntryPos)
             /\ buf # Encode(Streams)
C6_Witness ==
    /\ SwappedTwice
    /\ status = "MalformedModel"
    /\ Len(Streams) = 4
    /\ buf # prev.buf

ReachableTextures ==
    {Streams[x[1]][x[2]].tex :
        x \in {y \in ReachableFrom(Streams, mdl.entry) \X (1..20) :
                  y[2] <= Len(Streams[y[1]]) /\ Streams[y[1]][y[2]].op = "tmappoly"}}
\* C7: on a well-formed model g3_init_polygon_model returns the greatest of
\* -1 and the texture indices of the TexturedPolygon records of every stream
\* reachable from the entry through SortByNormal branches and SubmodelCalls.
C7_InitScanReturnsMaxTexture ==
    (mode = "InitScan" /\ status = "done" /\ WellFormedCall) =>
        result = SetMax({-1} \cup ReachableTextures)
C7_Witness ==
    /\ mode = "InitScan"
    /\ status = "done"
    /\ WellFormedCall
    /\ ReachableTextures = {1, 3, 7}
    /\ result = 7

\* The length of a polygon record with n vertices, as the file lays it out.
PolygonLength(op, n) == IF op = OP_FLATPOLY THEN RecLen(Flat(n, 0)) ELSE RecLen(Tmap(n, 0))
OversizedPolygonNext ==
    /\ Decoding
    /\ ~StepUndefined
    /\ get_raw_opcode(buf, P) # OP_EOF
    /\ CurOp \in {OP_FLATPOLY, OP_TMAPPOLY}
    /\ CurCount > MAX_POINTS_PER_POLY
\* C8: in StaticDraw the step over a FlatPolygon or TexturedPolygon record
\* with more than MAX_POINTS_PER_POLY vertices issues no draw call and
\* changes nothing but the cursor, which moves by the record's full length.
C8_StaticDrawSkipsOversized ==
    [][(mode = "StaticDraw" /\ OversizedPolygonNext) =>
          /\ draws' = draws
          /\ stack' = SetTop([Top EXCEPT !.p = @ + PolygonLength(CurOp, CurCount),
                                         !.sum = @ + PolygonLength(CurOp, CurCount)])
          /\ status' = "running"
          /\ UNCHANGED <<buf, instances, nest_count, result, ub>>]_vars
C8_Witness ==
    /\ mode = "StaticDraw"
    /\ status = "running"
    /\ last.op = OP_FLATPOLY
    /\ last.n > MAX_POINTS_PER_POLY
    /\ last.drew = 0
    /\ Top.p = last.p + PolygonLength(OP_FLATPOLY, last.n)
    /\ get_raw_opcode(buf, Top.p) = OP_TMAPPOLY

OversizedDecoded == last.op \in {OP_FLATPOLY, OP_TMAPPOLY} /\ last.n > MAX_POINTS_PER_POLY
\* C9 as stated: in both draw passes an oversized polygon record of either
\* opcode is passed over without a draw call and without a failure.
C9_BothDrawPassesSkip ==
    (mode \in {"StaticDraw", "MorphDraw"} /\ OversizedDecoded) =>
        (last.drew = 0 /\ last.size >= 0)
\* C9 amended: StaticDraw passes over an oversized polygon of either opcode,
\* and MorphDraw an oversized TexturedPolygon, without a draw call and
\* without a failure; MorphDraw has no limit for a FlatPolygon and draws
\* its fan of n - 2 triangles.
C9_OversizedInDrawPasses ==
    (mode \in {"StaticDraw", "MorphDraw"} /\ OversizedDecoded) =>
        /\ last.size >= 0
        /\ last.drew = IF mode = "MorphDraw" /\ last.op = OP_FLATPOLY THEN last.n - 2 ELSE 0
C9_Witness ==
    /\ mode = "MorphDraw"
    /\ status = "running"
    /\ last.op = OP_TMAPPOLY
    /\ last.n > MAX_POINTS_PER_POLY
    /\ last.drew = 0
    /\ draws = <<>>

\* C10 as stated: InitScan fails with MalformedModel at an oversized polygon
\* record and never moves past it.
C10_InitScanRejectsOversized ==
    (mode = "InitScan" /\ OversizedDecoded) => (status = "MalformedModel" /\ last.size < 0)
\* C10 amended: InitScan does not reject an oversized polygon record: it
\* moves past it by the record's full length like past any other, tracking
\* a TexturedPolygon's texture index; its only vertex-count check is the
\* debug build's Assert that the count is greater than 2.
C10_InitScanAcceptsOversized ==
    /\ (mode = "InitScan" /\ OversizedDecoded) =>
          /\ last.size = PolygonLength(last.op, last.n)
          /\ ~last.thrown
          /\ (status = "running" /\ Len(stack) = last.depth /\ Top.p = last.p + last.size
                /\ last.op = OP_TMAPPOLY) => Top.highest >= w(buf, last.p + 28)
    /\ (mode = "InitScan" /\ last.op \in {OP_FLATPOLY, OP_TMAPPOLY} /\ last.n >= 0
          /\ last.n <= 2) =>
          IF ndebug THEN last.size = PolygonLength(last.op, last.n)
          ELSE status = "assert" /\ last.size < 0
C10_Witness ==
    /\ mode = "InitScan"
    /\ status = "running"
    /\ last.op = OP_TMAPPOLY
    /\ last.n > MAX_POINTS_PER_POLY
    /\ Top.highest = 8
    /\ Top.p = last.p + last.size

\* i is a position of the glow table the call was given.
GlowIndexInTable(i) == glow_values.has /\ i >= 0 /\ i < Len(glow_values.v)
StaticPolygonNext ==
    /\ mode = "StaticDraw"
    /\ Decoding
    /\ ~StepUndefined
    /\ get_raw_opcode(buf, P) # OP_EOF
    /\ CurOp \in {OP_FLATPOLY, OP_TMAPPOLY}
\* The colour a FlatPolygon record resolves to by itself.
OwnColour(b, p) ==
    IF game = "D1" THEN w(b, p + 28) % 256 ELSE gr_find_closest_color_15bpp(w(b, p + 28))
\* C11: in StaticDraw the glow table is only ever read at one of its own
\* positions, and a step over a polygon record while the glow index is not
\* such a position (at or past the length, negative, or no table) reads
\* nothing from the table: a TexturedPolygon it draws is lit from the
\* surface normal and a FlatPolygon it draws has the record's own colour.
C11_InvalidGlowFallsBack ==
    [][/\ \A i \in 1..Len(glow_reads') : GlowIndexInTable(glow_reads'[i])
       /\ (StaticPolygonNext /\ ~GlowIndexInTable(Top.glow_num)) =>
             /\ glow_reads' = glow_reads
             /\ \A k \in (Len(draws) + 1)..Len(draws') :
                   /\ draws'[k].kind = "tmap" => draws'[k].light = NormalLight
                   /\ draws'[k].kind = "poly" => draws'[k].color = OwnColour(buf, P)]_vars
C11_Witness ==
    /\ mode = "StaticDraw"
    /\ status = "running"
    /\ glow_values.has
    /\ Top.glow_num = Len(glow_values.v)
    /\ Len(glow_values.v) = 1
    /\ last.op = OP_TMAPPOLY
    /\ last.drew = 1
    /\ draws[Len(draws)].light = NormalLight
    /\ glow_reads = <<>>

FlatWithinLimitNext(m) ==
    /\ mode = m
    /\ Decoding
    /\ ~StepUndefined
    /\ get_raw_opcode(buf, P) # OP_EOF
    /\ CurOp = OP_FLATPOLY
    /\ CurCount <= MAX_POINTS_PER_POLY
\* The frame after a record of the given size that left its state alone.
Passed(fr, size) == [fr EXCEPT !.p = @ + size, !.sum = @ + size]
\* The colour ColorProbe records for the FlatPolygon record at p.
ProbeColour(b, p) ==
    IF game = "D1" THEN w(b, p + 28) ELSE gr_find_closest_color_15bpp(w(b, p + 28))
\* C12: for a FlatPolygon record within the vertex limit and a facing result
\* f, ColorProbe records the record's colour when f > 0 and StaticDraw then
\* takes the record for drawing (it draws it, but for the glow value that
\* hides a polygon); when f <= 0 both pass over the record with their state
\* as it was and nothing drawn.  Neither changes the buffer.
C12_FacingAgreement ==
    [][/\ FlatWithinLimitNext("ColorProbe") =>
             /\ stack' = SetTop(Passed(IF facing' > 0
                                       THEN [Top EXCEPT !.color = ProbeColour(buf, P)]
                                       ELSE Top,
                                       flatpoly_record_size(CurCount)))
             /\ UNCHANGED <<draws, buf>>
       /\ FlatWithinLimitNext("StaticDraw") =>
             /\ stack' = SetTop(Passed(Top, flatpoly_record_size(CurCount)))
             /\ buf' = buf
             /\ IF facing' > 0
                THEN \/ /\ Len(draws') = Len(draws) + 1
                        /\ draws'[Len(draws')].kind = "poly"
                        /\ draws'[Len(draws')].p = P
                     \/ /\ draws' = draws
                        /\ game = "D2"
                        /\ GlowIndexInTable(Top.glow_num)
                        /\ glow_values.v[Top.glow_num + 1] = -3
                ELSE UNCHANGED <<draws, glow_reads>>]_vars
C12_Witness ==
    /\ mode = "ColorProbe"
    /\ prev.mode = "StaticDraw"
    /\ status = "running"
    /\ last.op = OP_FLATPOLY
    /\ last.n <= MAX_POINTS_PER_POLY
    /\ facing > 0
    /\ Top.p = last.p + last.size
    /\ Top.color = ProbeColour(buf, last.p)
    /\ Top.color # 0

\* The chunks the records before record i of stream s give rise to, for a
\* walk that started at the stream's first record.
RECURSIVE ExpectedChunks(_, _, _)
ExpectedChunks(m, s, i) ==
    IF i <= 1 THEN <<>>
    ELSE LET r == m[s][i - 1]
             pos == RecPos(m, s, i - 1)
             c(off) == [old_base |-> pos, new_base |-> new_data + (pos - StreamStart(m, s)),
                        offset |-> off, correction |-> 0]
         IN ExpectedChunks(m, s, i - 1) \o
            CASE r.op = "sortnorm" -> <<c(28), c(30)>>
              [] r.op = "subcall" -> <<c(16)>>
              [] OTHER -> <<>>
\* C13: get_chunks never enters a branch; while it runs on a well-formed
\* stream the chunks it has appended are those of the records passed so
\* far, in stream order: two per SortByNormal (fields 28 and 30), one per
\* SubmodelCall (field 16), none for other records, each with old_base the
\* record's position, new_base as far from new_data as old_base is from
\* data, and correction 0; it returns the offset of the EndOfStream tag
\* from data plus 2.
C13_ChunksOfLinearStream ==
    (mode = "ChunkCollect" /\ WellFormedCall /\ status \in {"running", "done"}) =>
        /\ Len(stack) <= 1
        /\ status = "running" =>
              \E i \in 1..(Len(Streams[mdl.entry]) + 1) :
                  /\ P = RecPos(Streams, mdl.entry, i)
                  /\ chunk_list = prev.chunks \o ExpectedChunks(Streams, mdl.entry, i)
        /\ status = "done" =>
              /\ chunk_list = prev.chunks \o
                                 ExpectedChunks(Streams, mdl.entry, Len(Streams[mdl.entry]) + 1)
              /\ result = EofPos(Streams, mdl.entry) - EntryPos + 2
C13_Witness ==
    /\ mode = "ChunkCollect"
    /\ WellFormedCall
    /\ status = "done"
    /\ new_data = 1000
    /\ Len(chunk_list) = 3
    /\ chunk_list[2].offset = 30
    /\ chunk_list[3].offset = 16
    /\ chunk_list[3].new_base - new_data = chunk_list[3].old_base - EntryPos
    /\ result = StreamLen(Streams[mdl.entry])

\* C14 as stated: while g3_init_polygon_model runs in a build with
\* assertions, the counter the nesting assertion tests equals the number of
\* init_model_sub invocations that are in progress.
C14_CounterIsDepth ==
    (mode = "InitScan" /\ ~ndebug /\ status = "running") => nest_count = Len(stack)

\* C15 as stated: a traversal that reads nothing outside the buffer ends by
\* completing or by an abort; a branch that leads back into a stream being
\* traversed never makes it recurse until the stack is exhausted.
C15_RecursionEndsInAbort ==
    ub = "none" => status # "crash"

ReadOnlyModes == {"ColorProbe", "StaticDraw", "MorphDraw", "InitScan"}
DrawModes == {"StaticDraw", "MorphDraw"}
\* The innermost invocation is at its EndOfStream tag and was called from a
\* SortByNormal record as its first (k = 1) or second (k = 2) branch.
BranchReturns(k) ==
    /\ Decoding
    /\ InBuf(buf, P, 2)
    /\ get_raw_opcode(buf, P) = OP_EOF
    /\ Len(stack) > 1
    /\ stack[Len(stack) - 1].phase = k
\* The invocation a step has just started for the branch field at offset off
\* of the record at callp: it is where the field leads when the field is
\* not negative.
BranchEntered(fr, callp, off) ==
    /\ fr.callp = callp
    /\ fr.fieldoff = off
    /\ fr.field = w(buf, callp + off)
    /\ fr.p = fr.start
    /\ fr.field >= 0 => fr.start = callp + fr.field
\* C17: in the draw passes a SortByNormal record starts the traversal of
\* the branch of field [30,32) when the facing test is > 0 and of field
\* [28,30) otherwise; only when that traversal has reached its EndOfStream
\* does the traversal of the other branch start, from the same record; and
\* when that one has reached its EndOfStream the record is passed (32 bytes)
\* with no further traversal.  No other step starts or ends a branch of it.
C17_BackToFrontOrder ==
    [][(mode \in DrawModes /\ status' = "running") =>
          /\ CanDispatch(OP_SORTNORM) =>
                /\ Len(stack') = Len(stack) + 1
                /\ stack'[Len(stack)] = [Top EXCEPT !.phase = 1, !.pend = stack'[Len(stack)].pend,
                                                   !.pendoff = stack'[Len(stack)].pendoff]
                /\ BranchEntered(stack'[Len(stack')], P, IF facing' > 0 THEN 30 ELSE 28)
          /\ BranchReturns(1) =>
                /\ Len(stack') = Len(stack)
                /\ stack'[Len(stack) - 1].phase = 2
                /\ stack'[Len(stack) - 1].p = Caller.p
                /\ BranchEntered(stack'[Len(stack')], Caller.p, 58 - Top.fieldoff)
          /\ BranchReturns(2) =>
                /\ stack' = Append(SubSeq(stack, 1, Len(stack) - 2),
                                   Passed([Caller EXCEPT !.phase = 0], sortnorm_record_size))
          /\ (stack # <<>> /\ Len(stack') >= Len(stack)) =>
                \A i \in 1..Len(stack) :
                    (stack'[i].phase \in {1, 2} /\ stack'[i].phase # stack[i].phase) =>
                        /\ i = Len(stack) - (stack'[i].phase - 1)
                        /\ stack[i].phase = stack'[i].phase - 1
                        /\ get_raw_opcode(buf, stack[i].p) = OP_SORTNORM]_vars
C17_Witness ==
    /\ mode = "MorphDraw"
    /\ status = "running"
    /\ Len(stack) = 2
    /\ stack[1].phase = 2
    /\ Top.fieldoff = 28
    /\ Top.field # w(buf, Top.callp + 30)
    /\ Top.start = Top.callp + Top.field
    /\ ret.start = Top.callp + w(buf, Top.callp + 30)
    /\ get_raw_opcode(buf, Top.p) = OP_EOF

\* C18: in ColorProbe a SortByNormal record starts one nested probe, at the
\* record's position plus field [28,30) when the facing test is > 0 and
\* plus field [30,32) otherwise; when that probe has reached its
\* EndOfStream the record is passed (32 bytes) with the probe's colour set
\* to the nested result, whatever it is and whatever the colour was; no
\* second branch is ever entered.
C18_ProbeTakesOneBranch ==
    [][(mode = "ColorProbe" /\ status' = "running") =>
          /\ CanDispatch(OP_SORTNORM) =>
                /\ Len(stack') = Len(stack) + 1
                /\ stack'[Len(stack)].phase = 1
                /\ stack'[Len(stack)].p = P
                /\ stack'[Len(stack)].color = Top.color
                /\ BranchEntered(stack'[Len(stack')], P, IF facing' > 0 THEN 28 ELSE 30)
                /\ stack'[Len(stack')].start = P + w(buf, P + (IF facing' > 0 THEN 28 ELSE 30))
          /\ BranchReturns(1) =>
                stack' = Append(SubSeq(stack, 1, Len(stack) - 2),
                                Passed([Caller EXCEPT !.phase = 0, !.color = Top.color],
                                       sortnorm_record_size))
          /\ \A i \in 1..Len(stack') : stack'[i].phase # 2]_vars
C18_Witness ==
    /\ mode = "ColorProbe"
    /\ status = "running"
    /\ Len(stack) = 1
    /\ get_raw_opcode(buf, EntryPos) = OP_FLATPOLY
    /\ last.op = OP_SORTNORM
    /\ last.size = sortnorm_record_size
    /\ facing > 0
    /\ ret.start = last.p + w(buf, last.p + 28)
    /\ ret.depth = 2
    /\ Top.color = 0

Min(a, b) == IF a <= b THEN a ELSE b
\* The first nested traversal of a SortByNormal is at its end: the next step
\* leaves it and enters the second one, a new traversal at the same depth.
SecondBranchNext == AtEof /\ Len(stack) > 1 /\ Caller.phase = 1

\* C19: in StaticDraw a Glow record sets the glow cursor of its traversal to
\* its index; a TexturedPolygon that is drawn (within the vertex limit and
\* facing) while the cursor is a position of the table is lit by the table
\* value there and sets the cursor to 'none'; a TexturedPolygon drawn at any
\* other time is lit from the surface normal; and no other step changes the
\* cursor of a traversal in progress: not a FlatPolygon, not a culled or
\* oversized polygon, not a nested traversal, which starts at 'none'.
C19_GlowCursor ==
    [][(mode = "StaticDraw" /\ status' = "running") =>
          /\ CanDispatch(OP_GLOW) =>
                stack' = SetTop(Passed([Top EXCEPT !.glow_num = w(buf, P + 2)], glow_record_size))
          /\ CanDispatch(OP_TMAPPOLY) =>
                IF CurCount <= MAX_POINTS_PER_POLY /\ facing' > 0
                   /\ GlowIndexInTable(Top.glow_num)
                THEN /\ stack' = SetTop(Passed([Top EXCEPT !.glow_num = GLOW_OFF],
                                               tmappoly_record_size(CurCount)))
                     /\ Len(draws') = Len(draws) + 1
                     /\ draws'[Len(draws')].kind = "tmap"
                     /\ draws'[Len(draws')].light = GlowLight(glow_values.v[Top.glow_num + 1])
                ELSE /\ stack' = SetTop(Passed(Top, tmappoly_record_size(CurCount)))
                     /\ \A k \in (Len(draws) + 1)..Len(draws') : draws'[k].light = NormalLight
          /\ \A i \in 1..Min(Len(stack), Len(stack')) :
                (i < Len(stack) \/ ~(CanDispatch(OP_GLOW) \/ CanDispatch(OP_TMAPPOLY)
                                      \/ SecondBranchNext)) =>
                    stack'[i].glow_num = stack[i].glow_num
          /\ (Len(stack') > Len(stack) \/ SecondBranchNext) =>
                stack'[Len(stack')].glow_num = GLOW_OFF]_vars
C19_Witness ==
    /\ mode = "StaticDraw"
    /\ status = "running"
    /\ glow_values.has
    /\ Len(glow_values.v) = 2
    /\ glow_reads = <<1>>
    /\ Len(draws) >= 2
    /\ draws[Len(draws) - 1].kind = "tmap"
    /\ draws[Len(draws) - 1].light = GlowLight(glow_values.v[2])
    /\ draws[Len(draws)].kind = "tmap"
    /\ draws[Len(draws)].light = NormalLight
    /\ Top.glow_num = GLOW_OFF

\* C20 as stated: when a StaticDraw or MorphDraw call that read nothing
\* outside the buffer has ended, by completing or with MalformedModel, every
\* g3_start_instance_angles it made has been closed by a g3_done_instance.
C20_InstancesBalanced ==
    (mode \in DrawModes /\ status \in {"done", "MalformedModel"} /\ ub = "none") =>
        instances = 0

\* C21 as stated: every draw a StaticDraw call issues, at any nesting level,
\* goes to the canvas the call was given, whatever the current canvas is.
\* The flat polygons go to the current canvas instead.
C21_DrawsTargetPassedCanvas ==
    mode = "StaticDraw" => \A k \in 1..Len(draws) : draws[k].canvas = canvas

\* C22: in MorphDraw a FlatPolygon record with n >= 2 vertices and index table
\* idx issues exactly n - 2 triangle draws, the k-th (k = 2 .. n-1) of the point
\* list entries (idx[0], idx[k-1], idx[k]), in that order and after the draws
\* made before; the facing test of the record is not made, and nothing but
\* idx[0..n-1] decides the triangles.
C22_MorphFlatFan ==
    [][(mode = "MorphDraw" /\ CanDispatch(OP_FLATPOLY) /\ CurCount >= 2) =>
          LET n == CurCount
              base == Len(draws)
          IN /\ Len(draws') = base + n - 2
             /\ SubSeq(draws', 1, base) = draws
             /\ \A k \in 2..(n - 1) :
                   /\ draws'[base + k - 1].kind = "tri"
                   /\ draws'[base + k - 1].p = P
                   /\ draws'[base + k - 1].pts =
                         <<w(buf, P + 30), w(buf, P + 30 + 2 * (k - 1)), w(buf, P + 30 + 2 * k)>>
             /\ facing' = facing
             /\ status' = "running"
             /\ Top'.p = P + flatpoly_record_size(n)]_vars
\* A five-vertex FlatPolygon has drawn its three triangles, and a two-vertex
\* one before it drew none.
C22_Witness ==
    /\ mode = "MorphDraw"
    /\ status = "running"
    /\ last.op = OP_FLATPOLY
    /\ last.n = 5
    /\ last.drew = 3
    /\ Len(draws) >= 3
    /\ [i \in 1..3 |-> draws[Len(draws) - 3 + i].pts] = <<<<0, 1, 2>>, <<0, 2, 3>>, <<0, 3, 4>>>>
    /\ \E i \in 1..Len(visits) : visits[i].op = OP_FLATPOLY /\ visits[i].n = 2
    /\ \A i \in 1..Len(draws) : draws[i].nv # 2

\* C23: every nested StaticDraw traversal, entered from a SortByNormal or a
\* SubmodelCall record, starts with the glow cursor off whatever the cursor of
\* the enclosing traversal is; no step of a nested traversal changes the cursor
\* of a traversal that encloses it; when the nested traversal returns and the
\* enclosing one goes on, its cursor is the one it had at the record; and the
\* glow table is the same at every level.
C23_NestedGlowCursor ==
    [][(mode = "StaticDraw" /\ status = "running" /\ status' = "running") =>
          /\ glow_values' = glow_values
          \* a nested traversal is entered: from a record, or from the first
          \* branch of a SortByNormal into the second
          /\ (CanDispatch(OP_SORTNORM) \/ CanDispatch(OP_SUBCALL)) =>
                /\ Len(stack') = Len(stack) + 1
                /\ stack'[Len(stack')].glow_num = GLOW_OFF
                /\ stack'[Len(stack)].glow_num = Top.glow_num
          /\ (AtEof /\ Len(stack) > 1 /\ Caller.phase = 1) =>
                /\ Len(stack') = Len(stack)
                /\ stack'[Len(stack')].glow_num = GLOW_OFF
                /\ stack'[Len(stack) - 1].glow_num = Caller.glow_num
          \* the nested traversal returns to the record it came from
          /\ (AtEof /\ Len(stack) > 1 /\ Caller.phase \in {2, 3}) =>
                /\ Len(stack') = Len(stack) - 1
                /\ stack'[Len(stack')].glow_num = Caller.glow_num
                /\ stack'[Len(stack')].p = Caller.p + (IF Caller.phase = 2 THEN sortnorm_record_size
                                                        ELSE subcall_record_size)
          \* the enclosing traversals keep their cursors meanwhile
          /\ \A i \in 1..(Len(stack) - 1) :
                i <= Len(stack') => stack'[i].glow_num = stack[i].glow_num]_vars
\* The top stream set its cursor to 0 and then decoded a SortByNormal; one
\* branch set its own cursor to 1 and drew with the table entry there, the
\* other drew two levels down without a glow value; back in the top stream the
\* cursor is still 0.
C23_Witness ==
    /\ mode = "StaticDraw"
    /\ status = "running"
    /\ glow_values = [has |-> TRUE, v |-> <<5, -3>>]
    /\ Len(stack) = 1
    /\ last.op = OP_SORTNORM
    /\ Top.glow_num = 0
    /\ glow_reads = <<1>>
    /\ Len(draws) = 2
    /\ {draws[1].light, draws[2].light} = {GlowLight(-3), NormalLight}
    /\ \E i \in 1..Len(visits) : visits[i].op = OP_SUBCALL

\* The tag a record of the model is encoded with.
TagOf(r) ==
    CASE r.op = "defpoints" -> OP_DEFPOINTS
      [] r.op = "defp_start" -> OP_DEFP_START
      [] r.op = "flatpoly" -> OP_FLATPOLY
      [] r.op = "tmappoly" -> OP_TMAPPOLY
      [] r.op = "sortnorm" -> OP_SORTNORM
      [] r.op = "rodbm" -> OP_RODBM
      [] r.op = "subcall" -> OP_SUBCALL
      [] r.op = "glow" -> OP_GLOW
      [] OTHER -> r.code
\* The stream branch field k of record r leads to (0 where there is none).
BranchStream(r, k) ==
    LET t == CASE r.op = "sortnorm" -> IF k = 1 THEN r.front ELSE r.back
               [] r.op = "subcall" -> IF k = 1 THEN r.to ELSE Raw(0)
               [] OTHER -> Raw(0)
    IN IF t.k = "stream" THEN t.s ELSE 0
\* Every stream the entry leads to is the target of exactly one branch field
\* of the streams traversed, and the entry stream of none: each record is
\* reached along one path.
SinglePath ==
    LET R == ReachableFrom(Streams, mdl.entry)
        refs(t) == Cardinality({x \in R \X (1..20) \X {1, 2} :
                                   /\ x[2] <= Len(Streams[x[1]])
                                   /\ BranchStream(Streams[x[1]][x[2]], x[3]) = t})
    IN \A t \in R : refs(t) = IF t = mdl.entry THEN 0 ELSE 1
\* Read in the host's order, the tag, the count and the branch fields of
\* every record the entry leads to are the ones the model was built with.
NativeFields(b) ==
    \A s \in ReachableFrom(Streams, mdl.entry) : \A i \in 1..Len(Streams[s]) :
        LET r == Streams[s][i]
            pos == RecPos(Streams, s, i)
        IN /\ get_raw_opcode(b, pos) = TagOf(r)
           /\ r.op \in {"defpoints", "defp_start", "flatpoly", "tmappoly"} =>
                 U16(w(b, pos + 2)) = r.n
           /\ r.op = "sortnorm" =>
                 /\ w(b, pos + 28) = FieldOf(Streams, r.front, pos)
                 /\ w(b, pos + 30) = FieldOf(Streams, r.back, pos)
           /\ r.op = "subcall" => w(b, pos + 16) = FieldOf(Streams, r.to, pos)
\* The swap pass ran to completion on the file-order buffer of a well-formed
\* model whose records lie on one path each, on a host of the other order.
SwappedOnce ==
    /\ bigendian
    /\ WellFormedModel(Streams)
    /\ SinglePath
    /\ ub = "none"
    /\ \/ calls = 1 /\ mode = "ByteSwap" /\ status = "done"
       \/ calls = 2 /\ prev.mode = "ByteSwap" /\ prev.status = "done"

\* C24: after swap_polygon_model_data has completed on a well-formed buffer in
\* file order whose records are reachable along one path each, every tag,
\* vertex count and branch field on that path reads in host order as the value
\* the model has; and a following g3_init_polygon_model dispatches the same
\* records as the swap pass did, at the same positions, in the same order,
\* with the same opcodes, counts and branch targets: what it has dispatched is
\* at every moment the beginning of the swap pass's sequence, and all of it
\* once the scan completes.  The scan can only stop short where a debug build
\* asserts that a polygon has three or more vertices.  The colour probe and
\* the draw passes follow branches by their own rules; each record they
\* dispatch is one the swap pass dispatched, with the same opcode and count.
C24_SwapThenScan ==
    SwappedOnce =>
        /\ (calls = 1 \/ mode = "InitScan") => NativeFields(buf)
        /\ (calls = 2 /\ mode = "InitScan") =>
              /\ status \in {"running", "done", "assert"}
              /\ Len(visits) <= Len(prev.visits)
              /\ visits = SubSeq(prev.visits, 1, Len(visits))
              /\ status = "done" => visits = prev.visits
              /\ status = "assert" =>
                    (~ndebug /\ last.op \in {OP_FLATPOLY, OP_TMAPPOLY} /\ last.n < 3)
        /\ (calls = 2 /\ mode \in {"ColorProbe", "StaticDraw", "MorphDraw"}) =>
              \A i \in 1..Len(visits) : \E j \in 1..Len(prev.visits) :
                  /\ prev.visits[j].p = visits[i].p
                  /\ prev.visits[j].op = visits[i].op
                  /\ prev.visits[j].n = visits[i].n
\* A scan has completed after the swap pass on a model with a SortByNormal, a
\* SubmodelCall and polygons; the file-order buffer did not read as the model
\* on this host.
C24_Witness ==
    /\ SwappedOnce
    /\ calls = 2
    /\ mode = "InitScan"
    /\ status = "done"
    /\ ~NativeFields(Encode(Streams))
    /\ Len(visits) >= 5
    /\ visits = prev.visits
    /\ \E i \in 1..Len(visits) : visits[i].op = OP_SORTNORM /\ Len(visits[i].to) = 2
    /\ \E i \in 1..Len(visits) : visits[i].op = OP_SUBCALL /\ Len(visits[i].to) = 1
    /\ \E i \in 1..Len(visits) : visits[i].op = OP_FLATPOLY /\ visits[i].n = 3
    /\ \E i \in 1..Len(visits) : visits[i].op = OP_TMAPPOLY

====
